---- MODULE Spec2Model ----
(***************************************************************************)
(* Token-refresh coordination, auth store and session monitoring, HTTP     *)
(* client retry pipeline, GET de-duplication, error normalization, rate    *)
(* limiter, circuit breaker and useApiCall hook of the Next.js enterprise  *)
(* boilerplate.                                                            *)
(*                                                                         *)
(*   modules/auth/stores/auth-store.ts   TokenRefreshManager, useAuthStore *)
(*   modules/auth/api (auth.api, mock)   authApi, authMockHandlers         *)
(*   shared/lib/api/client.ts            createApi, dedupedRequest,        *)
(*                                       handleApiResponse, CircuitBreaker *)
(*   shared/lib/api/config.ts            apiClient wiring                  *)
(*   shared/lib/api/errors.ts            AppError, normalizeError, tryCatch*)
(*   shared/lib/api/mock-wrapper.ts      createMockWrapper                 *)
(*   shared/lib/api/interceptors         RateLimiter                       *)
(*   shared/hooks/use-api-call.ts        useApiCall                        *)
(*                                                                         *)
(* JavaScript is single threaded: every action below is one synchronous    *)
(* run of code between two awaits.                                         *)
(***************************************************************************)
EXTENDS Integers, Sequences, FiniteSets, TLC

\* ---------------------------------------------------------------- bounds
NumCallers == 3      \* concurrent callers of the store / the coordinator
MaxTok == 3          \* tokens the backend issues in one behaviour
NumErrs == 2         \* distinct errors a generic refresh function may throw
NumBg == 1           \* store callers running beside the HTTP request
NumApiCallers == 2   \* calls of the wrapped client in one behaviour
TickMs == 2500       \* largest step of the clock between two events

\* ------------------------------------------------------ program constants
RetryLimit == 3
RetryMethods == {"get", "put", "post", "patch", "delete"}
RetryStatusCodes == {401, 408, 429, 500, 502, 503, 504}
Methods == {"get", "post", "put", "patch", "delete"}
LoginUrl == "/login?reason=session_expired"

NULL == 0
Procs == 0..NumCallers
Callers == 1..NumCallers
Emails == {1}
Tokens == 1..MaxTok
Errs == 1..NumErrs
Client == 0
Bg == 1..NumBg
NetErr == 0
Outcomes == {NetErr, 200, 401, 404, 503}

VARIABLES
  user,            \* store.user (NULL or the user of the login)
  isAuthenticated, \* store.isAuthenticated
  isLoading,       \* store.isLoading
  lastActivity,    \* store.lastActivity (NULL or a timestamp)
  now,             \* Date.now()
  accessToken,     \* localStorage['accessToken'] (NULL when absent)
  refreshToken,    \* localStorage['refreshToken'] (NULL when absent)
  issued,          \* number of tokens the backend has issued
  isRefreshing,    \* TokenRefreshManager.isRefreshing
  refreshQueue,    \* TokenRefreshManager.refreshQueue (waiting callers)
  location,        \* window.location.href
  pc,              \* position of each caller
  call,            \* per caller: the promise returned by refresh and its locals
  req,             \* per caller: the HTTP request it runs through apiClient
  pendingRequests, \* client.ts pendingRequests: cache key -> promise (NULL: no entry)
  promises,        \* the promises created by the wrapped client, in creation order
  timers,          \* pending setTimeout callbacks of dedupedRequest
  api,             \* per caller: the wrapped call it made and the Result it got
  norm,            \* one application of an error-normalization function
  authCall,        \* per caller: the e-mail submitted and whether a 401 came back
  useMock,         \* env.NEXT_PUBLIC_USE_MOCK_API outside a production build
  monitor,         \* the setInterval of startSessionMonitoring and its logouts
  limiter,         \* the RateLimiter instance, its accepted calls and its last call
  hook,            \* one useApiCall instance: its state, refs and execute calls
  breaker          \* the CircuitBreaker instance and the execute calls on it

vars == <<user, isAuthenticated, isLoading, lastActivity, now, accessToken,
          refreshToken, issued, isRefreshing, refreshQueue, location, pc,
          call, req, pendingRequests, promises, timers, api, norm, authCall,
          useMock, monitor,
          limiter,
          hook,
          breaker>>

authVars == <<user, isAuthenticated, isLoading, lastActivity, accessToken,
              refreshToken, issued, isRefreshing, refreshQueue, location, pc,
              call, req>>
dedupeVars == <<pendingRequests, promises, timers, api>>
extraVars == <<authCall, useMock, monitor,
                  limiter,
                  hook,
                  breaker>>
wrapperVars == <<pendingRequests, promises, timers, api, norm, extraVars>>

storeVars == <<user, isAuthenticated, isLoading, lastActivity>>
tokenVars == <<accessToken, refreshToken>>
managerVars == <<isRefreshing, refreshQueue>>

Range(s) == {s[i] : i \in DOMAIN s}

\* One caller's view of a refresh: kind of refresh function, the refresh token
\* captured by the closure, the function's outcome, the promise state/value,
\* and the caller that was refreshing when this one was queued.
NoCall == [kind |-> "none", rtok |-> NULL, threw |-> FALSE, out |-> NULL,
           state |-> "none", value |-> NULL, leader |-> NULL]

\* One request through apiClient wrapped in handleApiResponse: ky's retry
\* counter, the outcome of every attempt, the Authorization header of the
\* request object, the header of every attempt sent, the number of
\* onUnauthorized and refreshAccessToken invocations, the refresh token found in
\* storage when the first 401 arrived, and the Result handed to the caller.
NoReq == [method |-> "none", retryCount |-> 0, resp |-> <<>>, hdr |-> NULL,
          sent |-> <<>>, unauthCalls |-> 0, refreshCalls |-> 0,
          rtokAt401 |-> NULL, result |-> "none"]

InitAuth ==
  /\ user = NULL
  /\ isAuthenticated = FALSE
  /\ isLoading = TRUE
  /\ lastActivity = NULL
  /\ now = 1
  /\ \E persisted \in BOOLEAN :
       /\ accessToken = IF persisted THEN 1 ELSE NULL
       /\ refreshToken = IF persisted THEN 1 ELSE NULL
       /\ issued = IF persisted THEN 1 ELSE 0
  /\ isRefreshing = FALSE
  /\ refreshQueue = <<>>
  /\ location = "/"
  /\ pc = [p \in Procs |-> "idle"]
  /\ call = [p \in Procs |-> NoCall]
  /\ req = [p \in Procs |-> NoReq]

\* ---------------------------------------- wrapped client: de-duplication
\* TTL handed to dedupedRequest by wrappedInstance.get, in milliseconds.
Ttl == 5000

Urls == {"users"}

\* options.searchParams of a GET: not given, a plain object (its keys in
\* insertion order) or a URLSearchParams instance.
SearchParams ==
  {[kind |-> "none", entries |-> <<>>],
   [kind |-> "object", entries |-> <<"a">>],
   [kind |-> "URLSearchParams", entries |-> <<"a">>]}

\* JSON.stringify(options?.searchParams || {}): the own enumerable keys in
\* insertion order; a URLSearchParams instance has none and gives "{}".
Stringify(sp) == IF sp.kind = "object" THEN sp.entries ELSE <<>>

\* `GET:${url}:${JSON.stringify(options?.searchParams || {})}`
CacheKey(url, sp) == <<"GET", url, Stringify(sp)>>

Keys == {CacheKey(u, sp) : u \in Urls, sp \in SearchParams}

ApiCallers == 1..NumApiCallers

\* The p-th call of the wrapped client, made through handleApiResponse: the method,
\* the cache key (GET), whether the caller's signal was aborted at the call,
\* whether the signal was also handed to handleApiResponse, the promise the
\* client returned (NULL: the client was not called), whether this call
\* created that promise, and the Result the caller received.
NoApi == [method |-> "none", key |-> <<>>, aborted |-> FALSE,
          signalToHandler |-> FALSE, promise |-> NULL, created |-> FALSE,
          state |-> "idle", result |-> <<>>]

\* No normalization function applied yet.
NoNorm == [fn |-> "none", settle |-> "none", input |-> <<>>,
           aborted |-> FALSE, out |-> <<>>]

\* new RateLimiter(maxRequests, windowMs) and the end of the observed time.
LimiterMaxRequests == 2
LimiterWindowMs == 3
LimiterMaxNow == 6

\* Endpoint strings handed to the limiter (the empty string is falsy), and
\* the missing argument of reset().
Endpoints == {"", "/api/users"}
NoEndpoint == "undefined"

\* The requests map (a missing key reads as []), the timestamps accepted for
\* each endpoint since its last reset and within the last two windows, and
\* the last call with the error it threw.
NoLimiter == [requests |-> [e \in Endpoints |-> <<>>],
              accepted |-> [e \in Endpoints |-> <<>>],
              last |-> [op |-> "none", endpoint |-> NoEndpoint, threw |-> <<>>]]

\* execute() calls made on one useApiCall instance, and its retryCount option.
NumExecutes == 2
HookRetryCount == 1
Executes == 1..NumExecutes

\* One execute(): where it stands, the attempts made, whether its
\* AbortController was aborted, and the callback it fired.
NoExecute == [status |-> "new", attempts |-> 0, aborted |-> FALSE,
              fired |-> "none"]

\* useState initial value (and what reset() sets) with the call that wrote
\* the state last, abortControllerRef and retryTimeoutRef (NULL: null), and
\* the execute() calls.
ResetState == [status |-> "idle", by |-> NULL]
NoHook == [state |-> ResetState, abortControllerRef |-> NULL,
           retryTimeoutRef |-> NULL, calls |-> [i \in Executes |-> NoExecute]]

\* CircuitBreaker.threshold and CircuitBreaker.resetTimeout (milliseconds).
Threshold == 5
ResetTimeout == 60000

\* Concurrent callers of circuitBreaker.execute.
NumBreakerCalls == 2
BreakerCallers == 1..NumBreakerCalls

\* The fields of the CircuitBreaker (lastFailTime NULL: undefined) and, per
\* caller, whether its execute is idle, was rejected or has fn in flight.
NoBreaker == [failures |-> 0, lastFailTime |-> NULL, state |-> "closed",
              calls |-> [c \in BreakerCallers |-> "idle"]]

\* SESSION_TIMEOUT and the period of the monitoring interval, in milliseconds.
SessionTimeout == 1800000
CheckInterval == 60000

\* The interval of startSessionMonitoring: time left until its next callback,
\* and the logout() calls it made whose authApi.logout has not settled.
NoMonitor == [due |-> CheckInterval, pending |-> 0]

\* One call of a store action: which action, the e-mail submitted, whether
\* beforeRequest found an access token to send, whether the request was
\* answered 401, and what the action returned to its caller.
NoAuthCall == [op |-> "none", email |-> NULL, bearer |-> FALSE,
               unauthorized |-> FALSE, returned |-> "none"]

InitWrappers ==
  /\ pendingRequests = [k \in Keys |-> NULL]
  /\ promises = <<>>
  /\ timers = {}
  /\ api = [p \in ApiCallers |-> NoApi]
  /\ authCall = [p \in Procs |-> NoAuthCall]
  /\ useMock = FALSE
  /\ monitor = NoMonitor
  /\ breaker = NoBreaker
  /\ hook = NoHook
  /\ limiter = NoLimiter

Init == InitAuth /\ InitWrappers /\ norm = NoNorm

\* ------------------------------------------------- TokenRefreshManager
\* Variant of the synchronous head of refresh() that starts the refresh
\* function without looking at isRefreshing.
ManagerRefreshEnterUnguarded(p, kind, rtok) ==
  /\ isRefreshing' = TRUE
  /\ pc' = [pc EXCEPT ![p] = "inflight"]
  /\ call' = [call EXCEPT ![p] = [NoCall EXCEPT !.kind = kind,
                 !.rtok = rtok, !.state = "pending"]]
  /\ UNCHANGED refreshQueue

\* refresh(): the synchronous head.  A caller arriving while isRefreshing is
\* pushed on the queue; otherwise it becomes the refreshing caller and the
\* refresh function is started.
ManagerRefreshEnter(p, kind, rtok) ==
  LET cur == {q \in Procs : pc[q] \in {"inflight", "fnDone"}}
      ldr == IF cur = {} THEN NULL ELSE CHOOSE q \in cur : TRUE
  IN
  IF isRefreshing
  THEN /\ refreshQueue' = Append(refreshQueue, p)
       /\ pc' = [pc EXCEPT ![p] = "queued"]
       /\ call' = [call EXCEPT ![p] = [NoCall EXCEPT !.kind = kind,
                      !.rtok = rtok, !.state = "pending", !.leader = ldr]]
       /\ UNCHANGED isRefreshing
  ELSE /\ isRefreshing' = TRUE
       /\ pc' = [pc EXCEPT ![p] = "inflight"]
       /\ call' = [call EXCEPT ![p] = [NoCall EXCEPT !.kind = kind,
                      !.rtok = rtok, !.state = "pending"]]
       /\ UNCHANGED refreshQueue

\* Variant of the continuation of refresh() whose catch branch resolves the
\* queued promises with null instead of rejecting them.
ManagerResumeSwallow(p) ==
  /\ pc[p] = "fnDone"
  /\ LET st == IF call[p].threw THEN "rejected" ELSE "resolved"
     IN
     /\ call' = [q \in Procs |->
                   IF q = p
                   THEN [call[q] EXCEPT !.state = st, !.value = call[p].out]
                   ELSE IF q \in Range(refreshQueue)
                   THEN [call[q] EXCEPT !.state = "resolved",
                           !.value = IF call[p].threw THEN NULL ELSE call[p].out]
                   ELSE call[q]]
     /\ pc' = [q \in Procs |->
                 IF q \in Range(refreshQueue) \cup {p} THEN "settled" ELSE pc[q]]
  /\ refreshQueue' = <<>>
  /\ isRefreshing' = FALSE
  /\ UNCHANGED <<storeVars, tokenVars, now, issued, location, req>>
  /\ UNCHANGED wrapperVars

\* refresh(): the continuation after `await refreshFn()`: every queued promise
\* is resolved with the token (or rejected with the error), the queue is
\* emptied, the caller's own promise settles, and finally isRefreshing drops.
ManagerResume(p) ==
  /\ pc[p] = "fnDone"
  /\ LET st == IF call[p].threw THEN "rejected" ELSE "resolved"
         released == Range(refreshQueue) \cup {p}
     IN
     /\ call' = [q \in Procs |->
                   IF q \in released
                   THEN [call[q] EXCEPT !.state = st, !.value = call[p].out]
                   ELSE call[q]]
     /\ pc' = [q \in Procs |-> IF q \in released THEN "settled" ELSE pc[q]]
  /\ refreshQueue' = <<>>
  /\ isRefreshing' = FALSE
  /\ UNCHANGED <<storeVars, tokenVars, now, issued, location, req>>
  /\ UNCHANGED wrapperVars

\* reset()
Reset ==
  /\ refreshQueue' = <<>>
  /\ isRefreshing' = FALSE
  /\ UNCHANGED <<storeVars, tokenVars, now, issued, location, pc, call, req>>
  /\ UNCHANGED wrapperVars

\* -------------------------------------------------------------- store
\* login(): set isLoading and start authApi.login.
LoginStart(p) ==
  /\ pc[p] = "idle"
  /\ isLoading' = TRUE
  /\ pc' = [pc EXCEPT ![p] = "login"]
  /\ UNCHANGED <<user, isAuthenticated, lastActivity, tokenVars, now, issued,
                 managerVars, location, call, req>>
  /\ UNCHANGED wrapperVars

\* login(): authApi.login settled with a success Result, a failed Result or
\* an exception.
LoginSettles(p, outcome, email) ==
  /\ pc[p] = "login"
  /\ IF outcome = "ok"
     THEN /\ issued < MaxTok
          /\ issued' = issued + 1
          /\ accessToken' = issued + 1
          /\ refreshToken' = issued + 1
          /\ user' = email
          /\ isAuthenticated' = TRUE
          /\ lastActivity' = now
          /\ isLoading' = FALSE
     ELSE /\ isLoading' = FALSE
          /\ UNCHANGED <<user, isAuthenticated, lastActivity, tokenVars, issued>>
  /\ pc' = [pc EXCEPT ![p] = "idle"]
  /\ UNCHANGED <<now, managerVars, location, call, req>>
  /\ UNCHANGED wrapperVars

\* refreshAccessToken(): the synchronous head.  Without a refresh token the
\* session is cleared and null is returned; otherwise the coordinator is
\* entered with the closure that calls authApi.refresh(refreshToken).
RefreshAccessTokenBody(p) ==
  IF refreshToken = NULL
  THEN /\ accessToken' = NULL
       /\ refreshToken' = NULL
       /\ user' = NULL
       /\ isAuthenticated' = FALSE
       /\ lastActivity' = NULL
       /\ call' = [call EXCEPT ![p] = [NoCall EXCEPT !.kind = "store",
                                          !.state = "resolved"]]
       /\ pc' = [pc EXCEPT ![p] = "settled"]
       /\ UNCHANGED managerVars
  ELSE /\ ManagerRefreshEnter(p, "store", refreshToken)
       /\ UNCHANGED <<user, isAuthenticated, lastActivity, tokenVars>>

RefreshAccessToken(p) ==
  /\ pc[p] = "idle"
  /\ RefreshAccessTokenBody(p)
  /\ UNCHANGED <<isLoading, now, issued, location, req>>
  /\ UNCHANGED wrapperVars

\* Variant of the closure in which a failed refresh removes the access token
\* only.
AuthApiRefreshSettlesKeepsRefreshToken(p, outcome) ==
  /\ pc[p] = "inflight"
  /\ call[p].kind = "store"
  /\ IF outcome = "ok"
     THEN /\ issued < MaxTok
          /\ issued' = issued + 1
          /\ accessToken' = issued + 1
          /\ call' = [call EXCEPT ![p].out = issued + 1]
          /\ UNCHANGED <<refreshToken, user, isAuthenticated, lastActivity>>
     ELSE /\ accessToken' = NULL
          /\ user' = NULL
          /\ isAuthenticated' = FALSE
          /\ lastActivity' = NULL
          /\ call' = [call EXCEPT ![p].out = NULL]
          /\ UNCHANGED <<issued, refreshToken>>
  /\ pc' = [pc EXCEPT ![p] = "fnDone"]
  /\ UNCHANGED <<isLoading, now, managerVars, location, req>>
  /\ UNCHANGED wrapperVars

\* The closure passed to the coordinator: authApi.refresh settled.
AuthApiRefreshSettles(p, outcome) ==
  /\ pc[p] = "inflight"
  /\ call[p].kind = "store"
  /\ IF outcome = "ok"
     THEN /\ issued < MaxTok
          /\ issued' = issued + 1
          /\ accessToken' = issued + 1
          /\ call' = [call EXCEPT ![p].out = issued + 1]
          /\ UNCHANGED <<refreshToken, user, isAuthenticated, lastActivity>>
     ELSE /\ accessToken' = NULL
          /\ refreshToken' = NULL
          /\ user' = NULL
          /\ isAuthenticated' = FALSE
          /\ lastActivity' = NULL
          /\ call' = [call EXCEPT ![p].out = NULL]
          /\ UNCHANGED issued
  /\ pc' = [pc EXCEPT ![p] = "fnDone"]
  /\ UNCHANGED <<isLoading, now, managerVars, location, req>>
  /\ UNCHANGED wrapperVars

\* The caller has consumed the settled promise.
Return(p) ==
  /\ pc[p] = "settled"
  /\ req[p].method = "none"
  /\ pc' = [pc EXCEPT ![p] = "idle"]
  /\ call' = [call EXCEPT ![p] = NoCall]
  /\ UNCHANGED <<storeVars, tokenVars, now, issued, managerVars, location, req>>
  /\ UNCHANGED wrapperVars

AuthOutcomes == {"ok", "fail", "throw"}

StoreNext(p) ==
  \/ LoginStart(p)
  \/ \E o \in AuthOutcomes, e \in Emails : LoginSettles(p, o, e)
  \/ RefreshAccessToken(p)
  \/ \E o \in AuthOutcomes : AuthApiRefreshSettles(p, o)
  \/ ManagerResume(p)
  \/ Return(p)

Next == \E p \in Callers : StoreNext(p)

Spec == Init /\ [][Next]_vars

\* ------------------------------------------------------------ HTTP client
\* AppError.fromHttpStatus: the status -> code table.
FromHttpStatus(status) ==
  CASE status = 400 -> "BAD_REQUEST"
    [] status = 401 -> "UNAUTHORIZED"
    [] status = 403 -> "FORBIDDEN"
    [] status = 404 -> "NOT_FOUND"
    [] status = 409 -> "CONFLICT"
    [] status = 429 -> "RATE_LIMIT_EXCEEDED"
    [] status = 500 -> "INTERNAL_SERVER_ERROR"
    [] status = 502 -> "SERVICE_UNAVAILABLE"
    [] status = 503 -> "SERVICE_UNAVAILABLE"
    [] status = 504 -> "TIMEOUT"
    [] OTHER -> "UNKNOWN_ERROR"

\* handleApiResponse, catch branch: the code of the AppError built from what
\* the call rejected with.  kind "http" is ky's HTTPError (it carries
\* response.status), "fetch" the exception of a failed fetch, "error" a plain
\* Error whose message does not mention the network.
ErrorCode(kind, status, mentionsNetwork) ==
  IF kind = "http" THEN FromHttpStatus(status)
  ELSE IF kind = "fetch" /\ mentionsNetwork THEN "NETWORK_ERROR"
  ELSE "UNKNOWN_ERROR"

\* onUnauthorized as wired in config.ts: clearAuthState, clearTokens, redirect.
OnUnauthorized ==
  /\ user' = NULL
  /\ isAuthenticated' = FALSE
  /\ lastActivity' = NULL
  /\ accessToken' = NULL
  /\ refreshToken' = NULL
  /\ location' = LoginUrl

\* wrappedInstance.get/post/put/patch/delete: a request is created.
ApiRequest(p, m) ==
  /\ pc[p] = "idle"
  /\ req' = [req EXCEPT ![p] = [NoReq EXCEPT !.method = m]]
  /\ pc' = [pc EXCEPT ![p] = "beforeRequest"]
  /\ UNCHANGED <<storeVars, tokenVars, now, issued, managerVars, location, call>>
  /\ UNCHANGED wrapperVars

\* One attempt: the beforeRequest hook sets the Authorization header from
\* getAccessToken() when there is a token, then the request is sent.
SendRequest(p) ==
  /\ pc[p] = "beforeRequest"
  /\ LET h == IF accessToken # NULL THEN accessToken ELSE req[p].hdr
     IN req' = [req EXCEPT ![p].hdr = h, ![p].sent = Append(@, h)]
  /\ pc' = [pc EXCEPT ![p] = "fetch"]
  /\ UNCHANGED <<storeVars, tokenVars, now, issued, managerVars, location, call>>
  /\ UNCHANGED wrapperVars

\* Variant of the retry decision that retries whatever the status is.
ShouldRetryAnyStatus(m, rc, o) ==
  /\ m \in RetryMethods
  /\ rc <= RetryLimit

\* ky's retry decision for a failed attempt (retry.methods, retry.limit,
\* retry.statusCodes); rc is the retry counter after its increment.
ShouldRetry(m, rc, o) ==
  /\ m \in RetryMethods
  /\ rc <= RetryLimit
  /\ (o # NetErr => o \in RetryStatusCodes)

\* Variant of the settle step whose afterResponse hook tears the session down
\* on every response that is not a success.
FetchSettlesTeardownOnFailure(p, o, mentionsNetwork) ==
  /\ pc[p] = "fetch"
  /\ LET r == req[p]
         rc == IF r.method \in RetryMethods THEN r.retryCount + 1
               ELSE r.retryCount
         unauth == (o # 200)
         r1 == [r EXCEPT !.resp = Append(@, o),
                  !.unauthCalls = IF unauth THEN @ + 1 ELSE @,
                  !.rtokAt401 = IF unauth /\ r.unauthCalls = 0
                                THEN refreshToken ELSE @]
     IN
     /\ IF unauth
        THEN OnUnauthorized
        ELSE UNCHANGED <<user, isAuthenticated, lastActivity, tokenVars, location>>
     /\ IF o = 200
        THEN /\ req' = [req EXCEPT ![p] = [r1 EXCEPT !.result = "success"]]
             /\ pc' = [pc EXCEPT ![p] = "done"]
        ELSE IF ShouldRetry(r.method, rc, o)
        THEN /\ req' = [req EXCEPT ![p] = [r1 EXCEPT !.retryCount = rc]]
             /\ pc' = [pc EXCEPT ![p] = "backoff"]
        ELSE /\ req' = [req EXCEPT ![p] = [r1 EXCEPT !.retryCount = rc,
                          !.result = ErrorCode(IF o = NetErr THEN "fetch" ELSE "http",
                                               o, mentionsNetwork)]]
             /\ pc' = [pc EXCEPT ![p] = "done"]
  /\ UNCHANGED <<isLoading, now, issued, managerVars, call>>
  /\ UNCHANGED wrapperVars

\* The attempt settles with a response status or a fetch failure.  The
\* afterResponse hook runs on every response and calls onUnauthorized on a
\* 401; a 2xx ends the request with a success Result; anything else is
\* retried after the backoff delay or surfaces as a failed Result.
FetchSettles(p, o, mentionsNetwork) ==
  /\ pc[p] = "fetch"
  /\ LET r == req[p]
         rc == IF r.method \in RetryMethods THEN r.retryCount + 1
               ELSE r.retryCount
         unauth == (o = 401)
         r1 == [r EXCEPT !.resp = Append(@, o),
                  !.unauthCalls = IF unauth THEN @ + 1 ELSE @,
                  !.rtokAt401 = IF unauth /\ r.unauthCalls = 0
                                THEN refreshToken ELSE @]
     IN
     /\ IF unauth
        THEN OnUnauthorized
        ELSE UNCHANGED <<user, isAuthenticated, lastActivity, tokenVars, location>>
     /\ IF o = 200
        THEN /\ req' = [req EXCEPT ![p] = [r1 EXCEPT !.result = "success"]]
             /\ pc' = [pc EXCEPT ![p] = "done"]
        ELSE IF ShouldRetry(r.method, rc, o)
        THEN /\ req' = [req EXCEPT ![p] = [r1 EXCEPT !.retryCount = rc]]
             /\ pc' = [pc EXCEPT ![p] = "backoff"]
        ELSE /\ req' = [req EXCEPT ![p] = [r1 EXCEPT !.retryCount = rc,
                          !.result = ErrorCode(IF o = NetErr THEN "fetch" ELSE "http",
                                               o, mentionsNetwork)]]
             /\ pc' = [pc EXCEPT ![p] = "done"]
  /\ UNCHANGED <<isLoading, now, issued, managerVars, call>>
  /\ UNCHANGED wrapperVars

\* The beforeRetry hook after the backoff delay: for a 401 on the first retry
\* refreshAccessToken is called (config.ts hands it to the store); any other
\* failure goes straight to the next attempt.
BeforeRetry(p) ==
  /\ pc[p] = "backoff"
  /\ LET r == req[p] IN
     IF r.resp[Len(r.resp)] = 401 /\ r.retryCount = 1
     THEN /\ req' = [req EXCEPT ![p].refreshCalls = @ + 1]
          /\ RefreshAccessTokenBody(p)
          /\ UNCHANGED <<isLoading, now, issued, location>>
     ELSE /\ pc' = [pc EXCEPT ![p] = "beforeRequest"]
          /\ UNCHANGED <<storeVars, tokenVars, now, issued, managerVars,
                         location, call, req>>
  /\ UNCHANGED wrapperVars

\* The beforeRetry hook after `await refreshAccessToken()`: a token is put in
\* the Authorization header and the request is replayed; null makes the hook
\* throw Error('Unable to refresh authentication token'), a rejection is
\* rethrown; both end the request with a failed Result.
BeforeRetryResume(p) ==
  /\ pc[p] = "settled"
  /\ req[p].method # "none"
  /\ IF call[p].state = "resolved" /\ call[p].value # NULL
     THEN /\ req' = [req EXCEPT ![p].hdr = call[p].value]
          /\ pc' = [pc EXCEPT ![p] = "beforeRequest"]
     ELSE /\ req' = [req EXCEPT ![p].result = ErrorCode("error", NULL, FALSE)]
          /\ pc' = [pc EXCEPT ![p] = "done"]
  /\ UNCHANGED <<storeVars, tokenVars, now, issued, managerVars, location, call>>
  /\ UNCHANGED wrapperVars

ClientNext(p) ==
  \/ \E m \in Methods : ApiRequest(p, m)
  \/ SendRequest(p)
  \/ \E o \in Outcomes :
       \E mn \in (IF o = NetErr THEN BOOLEAN ELSE {FALSE}) : FetchSettles(p, o, mn)
  \/ BeforeRetry(p)
  \/ BeforeRetryResume(p)
  \/ \E o \in AuthOutcomes : AuthApiRefreshSettles(p, o)
  \/ ManagerResume(p)

\* The login form submitting while the request is under way.
UiNext(p) ==
  \/ LoginStart(p)
  \/ \E o \in AuthOutcomes, e \in Emails : LoginSettles(p, o, e)

NextClient == ClientNext(Client) \/ \E p \in Bg : UiNext(p)

SpecClient == Init /\ [][NextClient]_vars

\* ------------------------------- the coordinator on its own (any refreshFn)
\* refresh(refreshFn) called with an arbitrary refresh function.
ManagerRefresh(p) ==
  /\ pc[p] = "idle"
  /\ ManagerRefreshEnter(p, "generic", NULL)
  /\ UNCHANGED <<storeVars, tokenVars, now, issued, location, req>>
  /\ UNCHANGED wrapperVars

\* The arbitrary refresh function settles: it resolves with a token or null,
\* or it throws an error.
RefreshFnSettles(p, threw, v) ==
  /\ pc[p] = "inflight"
  /\ call[p].kind = "generic"
  /\ call' = [call EXCEPT ![p].threw = threw, ![p].out = v]
  /\ pc' = [pc EXCEPT ![p] = "fnDone"]
  /\ UNCHANGED <<storeVars, tokenVars, now, issued, managerVars, location, req>>
  /\ UNCHANGED wrapperVars

ManagerNext(p) ==
  \/ ManagerRefresh(p)
  \/ \E v \in Tokens \cup {NULL} : RefreshFnSettles(p, FALSE, v)
  \/ \E e \in Errs : RefreshFnSettles(p, TRUE, e)
  \/ ManagerResume(p)

NextManager == \E p \in Callers : ManagerNext(p)

SpecManager == Init /\ [][NextManager]_vars

NextManagerReset == NextManager \/ Reset

SpecManagerReset == Init /\ [][NextManagerReset]_vars

\* -------------------------------------------------- error normalization
\* A JavaScript value as the normalization code looks at it: its type
\* ("Error" is an Error instance that is not an AppError), its name, whether
\* it has a message and the keywords the message (or the string itself)
\* contains, its status and statusCode properties (NULL: none), its response
\* object with the response's status and headers, its ok, code and errors
\* properties, and the AppError fields.
Plain == [type |-> "undefined", name |-> "", hasMessage |-> FALSE,
          words |-> {}, status |-> NULL, statusCode |-> NULL,
          hasResponse |-> FALSE, respStatus |-> NULL, headers |-> "absent",
          ok |-> "absent", code |-> "", errors |-> FALSE,
          isOperational |-> FALSE, retryable |-> FALSE, cancelled |-> FALSE]

ErrorCodes ==
  {"UNAUTHORIZED", "FORBIDDEN", "TOKEN_EXPIRED", "INVALID_CREDENTIALS",
   "VALIDATION_ERROR", "INVALID_INPUT", "MISSING_REQUIRED_FIELD", "NOT_FOUND",
   "ALREADY_EXISTS", "CONFLICT", "NETWORK_ERROR", "TIMEOUT",
   "SERVICE_UNAVAILABLE", "INTERNAL_SERVER_ERROR", "DATABASE_ERROR",
   "EXTERNAL_SERVICE_ERROR", "SERVER_ERROR", "BAD_REQUEST",
   "RATE_LIMIT_EXCEEDED", "UNKNOWN_ERROR"}

\* new AppError(message, code, statusCode, isOperational, details, requestId,
\* retryable); details is kept as its cancelled flag.
NewAppError(code, statusCode, isOperational, cancelled, retryable) ==
  [Plain EXCEPT !.type = "AppError", !.name = "AppError", !.hasMessage = TRUE,
                !.code = code, !.statusCode = statusCode,
                !.isOperational = isOperational, !.cancelled = cancelled,
                !.retryable = retryable]

\* The retryable column of the statusMap of AppError.fromHttpStatus.
StatusRetryable(status) == status \in {429, 500, 502, 503, 504}

\* AppError.fromHttpStatus(status, ...)
AppErrorFromHttpStatus(status) ==
  NewAppError(FromHttpStatus(status), status, TRUE, FALSE,
              StatusRetryable(status))

\* AppError.networkError(message)
NetworkError == NewAppError("NETWORK_ERROR", NULL, TRUE, FALSE, TRUE)

\* new AppError('Request was cancelled', NETWORK_ERROR, undefined, true,
\* {cancelled: true}): the retryable parameter is left at its default.
CancelledError == NewAppError("NETWORK_ERROR", NULL, TRUE, TRUE, FALSE)

\* error instanceof Error / error instanceof AppError
IsError(v) == v.type \in {"Error", "AppError"}
IsAppError(v) == v.type = "AppError"

\* a || b on status numbers
Or(a, b) == IF a # NULL THEN a ELSE b

\* normalizeError(error), on a string
NormalizeString(v) ==
  IF "unauthorized" \in v.words THEN NewAppError("UNAUTHORIZED", 401, TRUE, FALSE, FALSE)
  ELSE IF "forbidden" \in v.words THEN NewAppError("FORBIDDEN", 403, TRUE, FALSE, FALSE)
  ELSE IF "not found" \in v.words THEN NewAppError("NOT_FOUND", 404, TRUE, FALSE, FALSE)
  ELSE IF "timeout" \in v.words THEN NewAppError("TIMEOUT", 504, TRUE, FALSE, FALSE)
  ELSE IF "network" \in v.words THEN NetworkError
  ELSE NewAppError("UNKNOWN_ERROR", 500, FALSE, FALSE, FALSE)

\* normalizeError(error), on an Error instance that is not an AppError
NormalizeException(v) ==
  IF v.name = "AbortError" THEN CancelledError
  ELSE IF v.name = "TimeoutError" THEN NewAppError("TIMEOUT", 504, TRUE, FALSE, FALSE)
  ELSE IF v.name = "NetworkError" \/ "network" \in v.words THEN NetworkError
  ELSE IF v.name = "ValidationError"
       THEN NewAppError("VALIDATION_ERROR", 400, TRUE, FALSE, FALSE)
  ELSE NewAppError("UNKNOWN_ERROR", 500, FALSE, FALSE, FALSE)

\* normalizeError(error), on a non-null object that is not an Error
NormalizeObject(v) ==
  IF v.status # NULL \/ v.statusCode # NULL
  THEN AppErrorFromHttpStatus(Or(v.status, v.statusCode))
  ELSE IF v.hasResponse THEN AppErrorFromHttpStatus(Or(v.respStatus, 500))
  ELSE IF v.ok = "false" THEN AppErrorFromHttpStatus(Or(v.status, 500))
  ELSE IF v.code # "" /\ v.hasMessage
       THEN NewAppError(IF v.code \in ErrorCodes THEN v.code ELSE "UNKNOWN_ERROR",
                        Or(v.statusCode, 500), TRUE, FALSE, FALSE)
  ELSE IF v.errors THEN NewAppError("BAD_REQUEST", 400, TRUE, FALSE, FALSE)
  ELSE NewAppError("UNKNOWN_ERROR", 500, FALSE, FALSE, FALSE)

\* normalizeError(error)
NormalizeError(v) ==
  IF IsAppError(v) THEN v
  ELSE IF v.type = "Error" THEN NormalizeException(v)
  ELSE IF v.type = "object" THEN NormalizeObject(v)
  ELSE IF v.type = "string" THEN NormalizeString(v)
  ELSE IF v.type = "number" THEN AppErrorFromHttpStatus(v.status)
  ELSE NewAppError("UNKNOWN_ERROR", 500, FALSE, FALSE, FALSE)

\* success(data) / failure(error) and the object literals of the same shape
Success(data) == [success |-> TRUE, data |-> data]
Failure(error) == [success |-> FALSE, error |-> error]

\* The promise of an async function that threw.
Rejects(reason) == [rejected |-> TRUE, reason |-> reason]

\* Variant of the catch block that returns the failure with a data key.
HandleApiResponseCatchBothKeys(v) ==
  [success |-> FALSE, error |-> NormalizeError(v), data |-> v]

\* handleApiResponse, the catch block.  (error as any).response on null or
\* undefined throws a TypeError inside the catch block, and so does
\* headers.get on a headers value that is a plain object; the async function
\* then rejects.
HandleApiResponseCatch(v) ==
  IF IsError(v) /\ v.name = "AbortError" THEN Failure(CancelledError)
  ELSE IF IsAppError(v) THEN Failure(v)
  ELSE IF v.type \in {"null", "undefined"} THEN Rejects("TypeError")
  ELSE IF v.hasResponse /\ v.respStatus # NULL
       THEN IF v.headers = "plain" THEN Rejects("TypeError")
            ELSE Failure(AppErrorFromHttpStatus(v.respStatus))
  ELSE IF v.name = "NetworkError" \/ (v.hasMessage /\ "network" \in v.words)
       THEN Failure(NetworkError)
  ELSE Failure(NewAppError("UNKNOWN_ERROR", NULL, FALSE, FALSE, FALSE))

\* handleApiResponse(apiCall, signal): aborted is signal?.aborted, settle
\* and v are the way apiCall() settles.
HandleApiResponse(aborted, settle, v) ==
  IF aborted THEN HandleApiResponseCatch(CancelledError)
  ELSE IF settle = "resolve" THEN Success(v)
  ELSE HandleApiResponseCatch(v)

\* tryCatch(fn)
TryCatch(settle, v) ==
  IF settle = "resolve" THEN Success(v) ELSE Failure(NormalizeError(v))

\* The function returned by createMockWrapper with the mock enabled:
\* settle and v are the way mockHandler(...args) settles.
MockWrapper(settle, v) ==
  IF settle = "resolve" THEN Success(v) ELSE [success |-> FALSE, error |-> v]

\* --------------------------------- the normalization functions, applied
\* Status codes tried: the ten of the statusMap and two outside it.
StatusSamples == {400, 401, 403, 404, 409, 429, 500, 502, 503, 504, 302, 418}

MappedStatuses == {400, 401, 403, 404, 409, 429, 500, 502, 503, 504}

ErrorNames == {"Error", "TypeError", "HTTPError", "AbortError", "TimeoutError",
               "NetworkError", "ValidationError"}

WordSets == {{}, {"network"}, {"unauthorized"}, {"forbidden"}, {"not found"},
             {"timeout"}, {"timeout", "network"}}

JsNull == [Plain EXCEPT !.type = "null"]
JsUndefined == Plain
JsString(w) == [Plain EXCEPT !.type = "string", !.words = w]
JsNumber(n) == [Plain EXCEPT !.type = "number", !.status = n]

\* An Error instance; with a response it is ky's HTTPError shape (a real
\* Response, whose headers is a Headers instance).
JsError(name, w, resp) ==
  [Plain EXCEPT !.type = "Error", !.name = name, !.hasMessage = TRUE,
                !.words = w, !.hasResponse = (resp # NULL),
                !.respStatus = resp,
                !.headers = IF resp # NULL THEN "Headers" ELSE "absent"]

JsObject == [Plain EXCEPT !.type = "object"]

\* The AppError validateResponse throws on a schema mismatch.
ValidationFailed == NewAppError("VALIDATION_ERROR", NULL, TRUE, FALSE, FALSE)

Objects ==
  {JsObject}
  \cup {[JsObject EXCEPT !.status = n] : n \in StatusSamples}
  \cup {[JsObject EXCEPT !.statusCode = n] : n \in StatusSamples}
  \cup {[JsObject EXCEPT !.hasResponse = TRUE, !.respStatus = n, !.headers = h,
                         !.hasMessage = TRUE] :
          n \in StatusSamples \cup {NULL}, h \in {"absent", "Headers", "plain"}}
  \cup {[JsObject EXCEPT !.ok = "false"], [JsObject EXCEPT !.errors = TRUE]}
  \cup {[JsObject EXCEPT !.code = c, !.hasMessage = TRUE] :
          c \in {"SERVICE_UNAVAILABLE", "NOT_FOUND", "E_CUSTOM"}}
  \cup {[JsObject EXCEPT !.name = "NetworkError"],
        [JsObject EXCEPT !.hasMessage = TRUE, !.words = {"network"}]}

\* What a wrapped call can reject with.
ThrownValues ==
  {JsNull, JsUndefined, ValidationFailed}
  \cup {JsString(w) : w \in WordSets}
  \cup {JsNumber(n) : n \in StatusSamples}
  \cup {JsError(n, w, NULL) : n \in ErrorNames, w \in {{}, {"network"}}}
  \cup {JsError("HTTPError", w, r) : w \in {{}, {"network"}}, r \in StatusSamples}
  \cup Objects

\* What a wrapped call can resolve with: nothing (void) or a body.
DataValues == {JsUndefined, JsObject}

\* The code and retryable flag of the error of a produced Result or AppError
\* (<<>> when there is none).
Produced(out) ==
  IF "code" \in DOMAIN out THEN <<out.code, out.retryable>>
  ELSE IF "error" \in DOMAIN out /\ out.error.type = "AppError"
       THEN <<out.error.code, out.error.retryable>>
  ELSE <<>>

InitNorm ==
  /\ InitAuth
  /\ InitWrappers
  /\ \E a \in BOOLEAN :
       \/ \E v \in ThrownValues :
            norm = [NoNorm EXCEPT !.settle = "reject", !.input = v, !.aborted = a]
       \/ \E v \in DataValues :
            norm = [NoNorm EXCEPT !.settle = "resolve", !.input = v, !.aborted = a]

\* await handleApiResponse(apiCall, signal)
CallHandleApiResponse ==
  /\ norm.fn = "none"
  /\ norm' = [norm EXCEPT !.fn = "handleApiResponse",
                !.out = HandleApiResponse(norm.aborted, norm.settle, norm.input)]
  /\ UNCHANGED <<authVars, now, dedupeVars, extraVars>>

\* await tryCatch(fn)
CallTryCatch ==
  /\ norm.fn = "none"
  /\ ~norm.aborted
  /\ norm' = [norm EXCEPT !.fn = "tryCatch",
                !.out = TryCatch(norm.settle, norm.input)]
  /\ UNCHANGED <<authVars, now, dedupeVars, extraVars>>

\* await the function made by createMockWrapper, mock enabled
CallMockWrapper ==
  /\ norm.fn = "none"
  /\ ~norm.aborted
  /\ norm' = [norm EXCEPT !.fn = "mockWrapper",
                !.out = MockWrapper(norm.settle, norm.input)]
  /\ UNCHANGED <<authVars, now, dedupeVars, extraVars>>

\* normalizeError(error)
CallNormalizeError ==
  /\ norm.fn = "none"
  /\ ~norm.aborted
  /\ norm.settle = "reject"
  /\ norm' = [norm EXCEPT !.fn = "normalizeError",
                !.out = NormalizeError(norm.input)]
  /\ UNCHANGED <<authVars, now, dedupeVars, extraVars>>

\* AppError.fromHttpStatus(status)
CallFromHttpStatus ==
  /\ norm.fn = "none"
  /\ ~norm.aborted
  /\ norm.settle = "reject"
  /\ norm.input.type = "number"
  /\ norm' = [norm EXCEPT !.fn = "fromHttpStatus",
                !.out = AppErrorFromHttpStatus(norm.input.status)]
  /\ UNCHANGED <<authVars, now, dedupeVars, extraVars>>

NextNorm ==
  \/ CallHandleApiResponse
  \/ CallTryCatch
  \/ CallMockWrapper
  \/ CallNormalizeError
  \/ CallFromHttpStatus

SpecNorm == InitNorm /\ [][NextNorm]_vars

\* ------------------------------------- wrapped client with de-duplication
\* Only wrappedInstance.get goes through dedupedRequest.
DeduplicatedAlways(m) == TRUE

Deduplicated(m) == m = "get"

\* pendingRequests.has(key)
Has(key) == pendingRequests[key] # NULL

\* Variant of the removal that leaves the entry in the map.
PendingDeleteKeeps(key) == pendingRequests

\* pendingRequests.delete(key)
PendingDelete(key) == [pendingRequests EXCEPT ![key] = NULL]

\* The auth and normalization parts do not move while the client is used.
Elsewhere == UNCHANGED <<authVars, norm, extraVars>>

\* What a request of the wrapped client can settle with: a body, ky's
\* HTTPError for a 404, or the AbortError of a cancellation (the only
\* outcome when the signal was aborted before the call).
SettleOutcomes(aborted) ==
  IF aborted THEN {<<"reject", JsError("AbortError", {}, NULL)>>}
  ELSE {<<"resolve", JsObject>>,
        <<"reject", JsError("HTTPError", {}, 404)>>,
        <<"reject", JsError("AbortError", {}, NULL)>>}

\* A new request handed to ky: instance.<method>(url, mergedOptions).json().
\* With a signal that is already aborted nothing is sent.  settledFor is the
\* time since the request settled, not counted beyond Ttl + 1.
NewPromise(m, key, aborted) ==
  [key |-> key, sent |-> ~aborted, state |-> "pending", settle |-> "none",
   value |-> Plain, settledFor |-> NULL]

\* handleApiResponse(() => apiClient.<m>(url, {searchParams, signal}),
\* toHandler ? signal : undefined) up to its first await.  When the handler
\* has the aborted signal it returns the cancellation failure without calling
\* the client.  Otherwise wrappedInstance.<m> runs: a GET goes through
\* dedupedRequest and takes the promise cached under its key when there is
\* one; every other call starts a request of its own.
ApiCall(p, m, url, sp, aborted, toHandler) ==
  /\ api[p].state = "idle"
  /\ \A q \in ApiCallers : q < p => api[q].state # "idle"
  /\ LET key == CacheKey(url, sp)
         a0 == [NoApi EXCEPT !.method = m,
                  !.key = IF Deduplicated(m) THEN key ELSE <<>>,
                  !.aborted = aborted, !.signalToHandler = toHandler]
     IN
     IF toHandler /\ aborted
     THEN /\ api' = [api EXCEPT ![p] = [a0 EXCEPT !.state = "done",
                        !.result = HandleApiResponse(TRUE, "none", Plain)]]
          /\ UNCHANGED <<pendingRequests, promises>>
     ELSE IF Deduplicated(m) /\ Has(key)
     THEN /\ api' = [api EXCEPT ![p] = [a0 EXCEPT !.state = "awaiting",
                        !.promise = pendingRequests[key]]]
          /\ UNCHANGED <<pendingRequests, promises>>
     ELSE /\ promises' = Append(promises, NewPromise(m, a0.key, aborted))
          /\ pendingRequests' = IF Deduplicated(m)
                                THEN [pendingRequests EXCEPT ![key] = Len(promises) + 1]
                                ELSE pendingRequests
          /\ api' = [api EXCEPT ![p] = [a0 EXCEPT !.state = "awaiting",
                        !.promise = Len(promises) + 1, !.created = TRUE]]
  /\ UNCHANGED <<now, timers>>
  /\ Elsewhere

\* A caller whose awaited promise is already settled: the continuation of
\* `await apiCall()` in handleApiResponse runs.
ApiResume(p) ==
  /\ api[p].state = "awaiting"
  /\ promises[api[p].promise].state # "pending"
  /\ LET pr == promises[api[p].promise] IN
     api' = [api EXCEPT ![p].state = "done",
               ![p].result = HandleApiResponse(FALSE, pr.settle, pr.value)]
  /\ UNCHANGED <<now, pendingRequests, promises, timers>>
  /\ Elsewhere

\* Request i settles.  For a de-duplicated request the finally callback
\* schedules the removal of its key after the TTL; the callers awaiting the
\* promise then get their Result from handleApiResponse.
Settle(i, o) ==
  /\ i \in DOMAIN promises
  /\ promises[i].state = "pending"
  /\ o \in SettleOutcomes(~promises[i].sent)
  /\ promises' = [promises EXCEPT ![i].state =
                      IF o[1] = "resolve" THEN "resolved" ELSE "rejected",
                    ![i].settle = o[1], ![i].value = o[2],
                    ![i].settledFor = 0]
  /\ timers' = IF promises[i].key # <<>>
               THEN timers \cup {[key |-> promises[i].key, delay |-> Ttl,
                                  owner |-> i]}
               ELSE timers
  /\ api' = [p \in ApiCallers |->
               IF api[p].state = "awaiting" /\ api[p].promise = i
               THEN [api[p] EXCEPT !.state = "done",
                       !.result = HandleApiResponse(FALSE, o[1], o[2])]
               ELSE api[p]]
  /\ UNCHANGED <<now, pendingRequests>>
  /\ Elsewhere

\* The setTimeout callback of dedupedRequest runs once its delay has passed.
TimerFires(t) ==
  /\ t \in timers
  /\ t.delay = 0
  /\ pendingRequests' = PendingDelete(t.key)
  /\ timers' = timers \ {t}
  /\ UNCHANGED <<now, promises, api>>
  /\ Elsewhere

Min(S) == CHOOSE x \in S : \A y \in S : x <= y

\* Time passes, by at most TickMs and not beyond the end of a timer's delay:
\* a timer whose delay has passed runs before the clock moves on.  Time is
\* kept as the delay left on each timer and the age of each settled request.
Tick ==
  /\ \A t \in timers : t.delay > 0
  /\ \E i \in DOMAIN promises :
        promises[i].state # "pending" /\ promises[i].settledFor <= Ttl
  /\ LET d == Min({TickMs} \cup {t.delay : t \in timers}) IN
     /\ timers' = {[t EXCEPT !.delay = @ - d] : t \in timers}
     /\ promises' = [i \in DOMAIN promises |->
                       IF promises[i].state = "pending" THEN promises[i]
                       ELSE [promises[i] EXCEPT !.settledFor =
                               Min({@ + d, Ttl + 1})]]
  /\ UNCHANGED <<now, pendingRequests, api>>
  /\ Elsewhere

NextDedupe ==
  \/ \E p \in ApiCallers, m \in Methods, u \in Urls, sp \in SearchParams,
        a \in BOOLEAN :
        \E h \in (IF a THEN BOOLEAN ELSE {FALSE}) : ApiCall(p, m, u, sp, a, h)
  \/ \E p \in ApiCallers : ApiResume(p)
  \/ \E i \in ApiCallers :
        \E o \in SettleOutcomes(TRUE) \cup SettleOutcomes(FALSE) : Settle(i, o)
  \/ \E t \in timers : TimerFires(t)
  \/ Tick

\* The client is used without a stored session.
InitDedupe == Init /\ accessToken = NULL

SpecDedupe == InitDedupe /\ [][NextDedupe]_vars

\* ------------------------------------------------ store: the whole session
\* The callers of the store's actions (components, the interval callback).
NumSessions == 1
SessionCallers == 1..NumSessions

\* The empty string submitted as e-mail, and 'user@example.com'.
EmptyEmail == -1
DefaultMockEmail == 2
Submitted == Emails \cup {EmptyEmail}

\* Variant of createMockUser that ignores its argument.
CreateMockUserIgnoresEmail(email) == DefaultMockEmail

\* createMockUser(email).email: email || 'user@example.com'
CreateMockUser(email) == IF email = EmptyEmail THEN DefaultMockEmail ELSE email

\* What an action of the store leaves alone outside the store.
sessionFrame == <<pendingRequests, promises, timers, api, norm, useMock,
                  monitor,
                  limiter,
                  hook,
                  breaker>>

\* login(email, password): set isLoading and call authApi.login(credentials).
Login(p, email) ==
  /\ pc[p] = "idle"
  /\ isLoading' = TRUE
  /\ pc' = [pc EXCEPT ![p] = "login"]
  /\ authCall' = [authCall EXCEPT ![p] = [NoAuthCall EXCEPT !.op = "login",
                                                            !.email = email]]
  /\ UNCHANGED <<user, isAuthenticated, lastActivity, tokenVars, now, issued,
                 managerVars, location, call, req>>
  /\ UNCHANGED sessionFrame

\* What authApi.login/register can give: the mock handler resolves with
\* createMockUser(data.email) and fresh tokens; the real handler gives any
\* Result or throws, and cannot succeed once a 401 made ky retry without a
\* refresh token.
AuthApiGives(p, outcome, email) ==
  IF useMock
  THEN outcome = "ok" /\ email = CreateMockUser(authCall[p].email)
  ELSE outcome = "ok" => ~authCall[p].unauthorized

\* login(): authApi.login settled; the store keeps the tokens and the user of
\* a success Result and returns true, and returns false otherwise.
LoginReturns(p, outcome, email) ==
  /\ pc[p] = "login"
  /\ AuthApiGives(p, outcome, email)
  /\ IF outcome = "ok"
     THEN /\ issued < MaxTok
          /\ issued' = issued + 1
          /\ accessToken' = issued + 1
          /\ refreshToken' = issued + 1
          /\ user' = email
          /\ isAuthenticated' = TRUE
          /\ lastActivity' = now
     ELSE UNCHANGED <<user, isAuthenticated, lastActivity, tokenVars, issued>>
  /\ isLoading' = FALSE
  /\ authCall' = [authCall EXCEPT ![p].email = NULL,
                                   ![p].returned =
                                     IF outcome = "ok" THEN "true" ELSE "false"]
  /\ pc' = [pc EXCEPT ![p] = "idle"]
  /\ UNCHANGED <<now, managerVars, location, call, req>>
  /\ UNCHANGED sessionFrame

\* register(data): set isLoading and call authApi.register(data).
Register(p, email) ==
  /\ pc[p] = "idle"
  /\ isLoading' = TRUE
  /\ pc' = [pc EXCEPT ![p] = "register"]
  /\ authCall' = [authCall EXCEPT ![p] = [NoAuthCall EXCEPT !.op = "register",
                                                            !.email = email]]
  /\ UNCHANGED <<user, isAuthenticated, lastActivity, tokenVars, now, issued,
                 managerVars, location, call, req>>
  /\ UNCHANGED sessionFrame

\* register(): authApi.register settled.
RegisterSettles(p, outcome, email) ==
  /\ pc[p] = "register"
  /\ AuthApiGives(p, outcome, email)
  /\ IF outcome = "ok"
     THEN /\ issued < MaxTok
          /\ issued' = issued + 1
          /\ accessToken' = issued + 1
          /\ refreshToken' = issued + 1
          /\ user' = email
          /\ isAuthenticated' = TRUE
          /\ lastActivity' = now
     ELSE UNCHANGED <<user, isAuthenticated, lastActivity, tokenVars, issued>>
  /\ isLoading' = FALSE
  /\ authCall' = [authCall EXCEPT ![p].email = NULL,
                                   ![p].returned =
                                     IF outcome = "ok" THEN "true" ELSE "false"]
  /\ pc' = [pc EXCEPT ![p] = "idle"]
  /\ UNCHANGED <<now, managerVars, location, call, req>>
  /\ UNCHANGED sessionFrame

\* Variant of the tail of logout() that skips the teardown when
\* authApi.logout threw.
LogoutSettlesRethrows(p, outcome) ==
  /\ pc[p] = "logout"
  /\ useMock => outcome = "ok"
  /\ IF outcome = "throw"
     THEN /\ isLoading' = FALSE
          /\ UNCHANGED <<accessToken, refreshToken, user, isAuthenticated,
                         lastActivity>>
     ELSE /\ accessToken' = NULL
          /\ refreshToken' = NULL
          /\ user' = NULL
          /\ isAuthenticated' = FALSE
          /\ lastActivity' = NULL
          /\ isLoading' = FALSE
  /\ authCall' = [authCall EXCEPT ![p].returned = "void"]
  /\ pc' = [pc EXCEPT ![p] = "idle"]
  /\ UNCHANGED <<now, issued, managerVars, location, call, req>>
  /\ UNCHANGED sessionFrame

\* logout(): set isLoading and call authApi.logout().
Logout(p) ==
  /\ pc[p] = "idle"
  /\ isLoading' = TRUE
  /\ pc' = [pc EXCEPT ![p] = "logout"]
  /\ authCall' = [authCall EXCEPT ![p] = [NoAuthCall EXCEPT !.op = "logout"]]
  /\ UNCHANGED <<user, isAuthenticated, lastActivity, tokenVars, now, issued,
                 managerVars, location, call, req>>
  /\ UNCHANGED sessionFrame

\* logout(): authApi.logout settled, with a Result or an exception that the
\* empty catch swallows; then clearTokens() and the cleared state.
LogoutSettles(p, outcome) ==
  /\ pc[p] = "logout"
  /\ useMock => outcome = "ok"
  /\ accessToken' = NULL
  /\ refreshToken' = NULL
  /\ user' = NULL
  /\ isAuthenticated' = FALSE
  /\ lastActivity' = NULL
  /\ isLoading' = FALSE
  /\ authCall' = [authCall EXCEPT ![p].returned = "void"]
  /\ pc' = [pc EXCEPT ![p] = "idle"]
  /\ UNCHANGED <<now, issued, managerVars, location, call, req>>
  /\ UNCHANGED sessionFrame

\* refreshUser(): set isLoading and call authApi.getMe().
RefreshUser(p) ==
  /\ pc[p] = "idle"
  /\ isLoading' = TRUE
  /\ pc' = [pc EXCEPT ![p] = "refreshUser"]
  /\ authCall' = [authCall EXCEPT ![p] =
                     [NoAuthCall EXCEPT !.op = "refreshUser",
                                        !.bearer = ~useMock /\ accessToken # NULL]]
  /\ UNCHANGED <<user, isAuthenticated, lastActivity, tokenVars, now, issued,
                 managerVars, location, call, req>>
  /\ UNCHANGED sessionFrame

\* refreshUser(): authApi.getMe settled.  The mock handler always resolves;
\* the real one succeeds only for a request that carried a token and was not
\* answered 401.  A success sets the user and isAuthenticated; anything else
\* runs clearAuthState(), which leaves the tokens in storage.
RefreshUserSettles(p, outcome, email) ==
  /\ pc[p] = "refreshUser"
  /\ IF useMock
     THEN outcome = "ok"
     ELSE outcome = "ok" => (authCall[p].bearer /\ ~authCall[p].unauthorized)
  /\ IF outcome = "ok"
     THEN /\ user' = email
          /\ isAuthenticated' = TRUE
          /\ lastActivity' = now
     ELSE /\ user' = NULL
          /\ isAuthenticated' = FALSE
          /\ lastActivity' = NULL
  /\ isLoading' = FALSE
  /\ authCall' = [authCall EXCEPT ![p].bearer = FALSE, ![p].returned = "void"]
  /\ pc' = [pc EXCEPT ![p] = "idle"]
  /\ UNCHANGED <<tokenVars, now, issued, managerVars, location, call, req>>
  /\ UNCHANGED sessionFrame

\* The request of an authApi call in flight is answered 401: the client's
\* afterResponse hook runs onUnauthorized before the call settles.
AuthApiUnauthorized(p) ==
  /\ pc[p] \in {"login", "register", "logout", "refreshUser"}
  /\ ~useMock
  /\ ~authCall[p].unauthorized
  /\ OnUnauthorized
  /\ authCall' = [authCall EXCEPT ![p].unauthorized = TRUE]
  /\ UNCHANGED <<isLoading, now, issued, managerVars, pc, call, req>>
  /\ UNCHANGED sessionFrame

\* Some other request through apiClient is answered 401.
ClientUnauthorized ==
  /\ OnUnauthorized
  /\ UNCHANGED <<isLoading, now, issued, managerVars, pc, call, req, authCall>>
  /\ UNCHANGED sessionFrame

SessionNext(p) ==
  \/ \E e \in Submitted : Login(p, e)
  \/ \E o \in AuthOutcomes, e \in Emails \cup {DefaultMockEmail} :
        LoginReturns(p, o, e)
  \/ \E e \in Submitted : Register(p, e)
  \/ \E o \in AuthOutcomes, e \in Emails \cup {DefaultMockEmail} :
        RegisterSettles(p, o, e)
  \/ Logout(p)
  \/ \E o \in AuthOutcomes : LogoutSettles(p, o)
  \/ RefreshUser(p)
  \/ \E o \in AuthOutcomes, e \in Emails \cup {DefaultMockEmail} :
        RefreshUserSettles(p, o, e)
  \/ AuthApiUnauthorized(p)

\* The client's beforeRetry hook refreshes the access token meanwhile.
ClientRefreshNext ==
  \/ RefreshAccessToken(Client)
  \/ \E o \in AuthOutcomes :
        (useMock => o = "ok") /\ AuthApiRefreshSettles(Client, o)
  \/ ManagerResume(Client)
  \/ Return(Client)

NextSession ==
  \/ \E p \in SessionCallers : SessionNext(p)
  \/ ClientRefreshNext
  \/ ClientUnauthorized

InitSession ==
  /\ InitAuth
  /\ pendingRequests = [k \in Keys |-> NULL]
  /\ promises = <<>>
  /\ timers = {}
  /\ api = [p \in ApiCallers |-> NoApi]
  /\ norm = NoNorm
  /\ authCall = [p \in Procs |-> NoAuthCall]
  /\ useMock \in BOOLEAN
  /\ monitor = NoMonitor
  /\ breaker = NoBreaker
  /\ hook = NoHook
  /\ limiter = NoLimiter

SpecSession == InitSession /\ [][NextSession]_vars

\* -------------------------------------------------- session monitoring
\* Largest step of the clock and the end of the observed time.
ClockStep == 30000
MaxNow == 2000000

monitorFrame == <<pendingRequests, promises, timers, api, norm, useMock,
                  authCall,
                  limiter,
                  hook,
                  breaker>>

\* isSessionExpired()
IsSessionExpired ==
  IF lastActivity = NULL THEN FALSE ELSE now - lastActivity > SessionTimeout

\* updateActivity: a mousedown, keydown, scroll or touchstart event.
Activity ==
  /\ isAuthenticated
  /\ lastActivity' = now
  /\ UNCHANGED <<user, isAuthenticated, isLoading, tokenVars, now, issued,
                 managerVars, location, pc, call, req, monitor>>
  /\ UNCHANGED monitorFrame

\* The interval callback: an expired authenticated session calls logout(),
\* which sets isLoading and starts authApi.logout, and then navigates.
IntervalFires ==
  /\ monitor.due = 0
  /\ IF isAuthenticated /\ IsSessionExpired
     THEN /\ isLoading' = TRUE
          /\ location' = LoginUrl
          /\ monitor' = [due |-> CheckInterval, pending |-> monitor.pending + 1]
     ELSE /\ monitor' = [monitor EXCEPT !.due = CheckInterval]
          /\ UNCHANGED <<isLoading, location>>
  /\ UNCHANGED <<user, isAuthenticated, lastActivity, tokenVars, now, issued,
                 managerVars, pc, call, req>>
  /\ UNCHANGED monitorFrame

\* A logout() started by the interval callback: authApi.logout settled, then
\* clearTokens() and the cleared state.
MonitorLogoutSettles ==
  /\ monitor.pending > 0
  /\ accessToken' = NULL
  /\ refreshToken' = NULL
  /\ user' = NULL
  /\ isAuthenticated' = FALSE
  /\ lastActivity' = NULL
  /\ isLoading' = FALSE
  /\ monitor' = [monitor EXCEPT !.pending = @ - 1]
  /\ UNCHANGED <<now, issued, managerVars, location, pc, call, req>>
  /\ UNCHANGED monitorFrame

\* Time passes, up to the next callback of the interval.
ClockTick ==
  /\ monitor.due > 0
  /\ LET d == IF monitor.due < ClockStep THEN monitor.due ELSE ClockStep
     IN /\ now + d <= MaxNow
        /\ now' = now + d
        /\ monitor' = [monitor EXCEPT !.due = @ - d]
  /\ UNCHANGED <<storeVars, tokenVars, issued, managerVars, location, pc, call,
                 req>>
  /\ UNCHANGED monitorFrame

NextMonitor ==
  \/ \E p \in SessionCallers :
        \/ \E e \in Submitted : Login(p, e)
        \/ \E o \in AuthOutcomes, e \in Emails : LoginReturns(p, o, e)
        \/ Logout(p)
        \/ \E o \in AuthOutcomes : LogoutSettles(p, o)
  \/ Activity
  \/ IntervalFires
  \/ MonitorLogoutSettles
  \/ ClockTick

SpecMonitor == Init /\ [][NextMonitor]_vars

\* ----------------------------------------------------------- RateLimiter
limiterFrame == <<authVars, pendingRequests, promises, timers, api, norm,
                  authCall, useMock, monitor, hook, breaker>>

\* requests.filter((time) => now - time < this.windowMs)
ValidRequests(requests, t) ==
  SelectSeq(requests, LAMBDA time : t - time < LimiterWindowMs)

\* new AppError('Rate limit exceeded', ErrorCodes.RATE_LIMIT_EXCEEDED, 429, true)
RateLimitExceeded == NewAppError("RATE_LIMIT_EXCEEDED", 429, TRUE, FALSE, FALSE)

\* checkLimit(endpoint)
CheckLimit(endpoint) ==
  LET validRequests == ValidRequests(limiter.requests[endpoint], now) IN
  /\ IF Len(validRequests) >= LimiterMaxRequests
     THEN limiter' = [limiter EXCEPT
            !.last = [op |-> "checkLimit", endpoint |-> endpoint,
                      threw |-> <<RateLimitExceeded>>]]
     ELSE limiter' = [limiter EXCEPT
            !.requests[endpoint] = Append(validRequests, now),
            !.accepted[endpoint] = Append(@, now),
            !.last = [op |-> "checkLimit", endpoint |-> endpoint,
                      threw |-> <<>>]]
  /\ UNCHANGED now
  /\ UNCHANGED limiterFrame

\* reset(endpoint?): a truthy argument deletes that key, anything else clears
\* the map.
ResetLimiter(endpoint) ==
  /\ IF endpoint # NoEndpoint /\ endpoint # ""
     THEN limiter' = [limiter EXCEPT
            !.requests[endpoint] = <<>>,
            !.accepted[endpoint] = <<>>,
            !.last = [op |-> "reset", endpoint |-> endpoint, threw |-> <<>>]]
     ELSE limiter' = [requests |-> [e \in Endpoints |-> <<>>],
                      accepted |-> [e \in Endpoints |-> <<>>],
                      last |-> [op |-> "reset", endpoint |-> endpoint,
                                threw |-> <<>>]]
  /\ UNCHANGED now
  /\ UNCHANGED limiterFrame

\* Date.now() advances by a millisecond.
LimiterTick ==
  /\ now < LimiterMaxNow
  /\ now' = now + 1
  /\ limiter' = [limiter EXCEPT !.accepted =
        [e \in Endpoints |->
           SelectSeq(limiter.accepted[e],
                     LAMBDA time : now + 1 - time < 2 * LimiterWindowMs)]]
  /\ UNCHANGED limiterFrame

NextLimiter ==
  \/ \E e \in Endpoints : CheckLimit(e)
  \/ \E e \in Endpoints \cup {NoEndpoint} : ResetLimiter(e)
  \/ LimiterTick

SpecLimiter == Init /\ [][NextLimiter]_vars

\* ------------------------------------------------------------ useApiCall
hookFrame == <<authVars, now, pendingRequests, promises, timers, api, norm,
               authCall, useMock, monitor, limiter, breaker>>

\* abortControllerRef.current.abort() and clearTimeout(retryTimeoutRef.current)
\* applied to the calls: the controller in the ref is aborted, and a call
\* waiting on the timer in the ref never resumes.
AbortAndClear(calls) ==
  [i \in Executes |->
     [calls[i] EXCEPT
        !.aborted = @ \/ (i = hook.abortControllerRef),
        !.status = IF i = hook.retryTimeoutRef /\ @ = "waiting"
                   THEN "done" ELSE @]]

\* execute(...args) up to the first await: abort the previous controller,
\* clear the pending retry, install a new controller, set the loading state
\* and call apiFunction(...args).
Execute(i) ==
  /\ hook.calls[i].status = "new"
  /\ \A j \in Executes : j < i => hook.calls[j].status # "new"
  /\ hook' = [hook EXCEPT
       !.calls = [AbortAndClear(hook.calls) EXCEPT
                    ![i] = [NoExecute EXCEPT !.status = "pending",
                                             !.attempts = 1]],
       !.abortControllerRef = i,
       !.state = [status |-> "loading", by |-> i]]
  /\ UNCHANGED hookFrame

\* attemptCall after `await apiFunction(...args)`: a success Result or direct
\* data sets the success state and fires onSuccess; an AbortError returns; any
\* other failure schedules a retry while attempts remain and otherwise sets
\* the error state and fires onError.
ApiFunctionSettles(i, outcome) ==
  /\ hook.calls[i].status = "pending"
  /\ hook' =
       IF outcome = "ok"
       THEN [hook EXCEPT !.state = [status |-> "success", by |-> i],
                         !.calls[i].status = "done",
                         !.calls[i].fired = "onSuccess"]
       ELSE IF outcome = "AbortError"
       THEN [hook EXCEPT !.calls[i].status = "done"]
       ELSE IF hook.calls[i].attempts < HookRetryCount + 1
       THEN [hook EXCEPT !.retryTimeoutRef = i,
                         !.calls[i].status = "waiting"]
       ELSE [hook EXCEPT !.state = [status |-> "error", by |-> i],
                         !.calls[i].status = "done",
                         !.calls[i].fired = "onError"]
  /\ UNCHANGED hookFrame

\* The retry timer fires: attemptCall() again.
RetryTimerFires(i) ==
  /\ hook.calls[i].status = "waiting"
  /\ hook' = [hook EXCEPT !.calls[i].status = "pending",
                          !.calls[i].attempts = @ + 1]
  /\ UNCHANGED hookFrame

\* cancel(): abort, clear the retry timer, reset().
Cancel ==
  /\ hook' = [hook EXCEPT !.calls = AbortAndClear(hook.calls),
                          !.state = ResetState]
  /\ UNCHANGED hookFrame

HookOutcomes == {"ok", "error", "AbortError"}

NextHook ==
  \/ \E i \in Executes : Execute(i)
  \/ \E i \in Executes, o \in HookOutcomes : ApiFunctionSettles(i, o)
  \/ \E i \in Executes : RetryTimerFires(i)
  \/ Cancel

SpecHook == Init /\ [][NextHook]_vars

\* -------------------------------------------------------- CircuitBreaker
\* Largest step of the clock and the end of the observed time.
BreakerStep == 30000
BreakerMaxNow == 150001

breakerFrame == <<authVars, pendingRequests, promises, timers, api, norm,
                  authCall, useMock, monitor, limiter, hook>>

\* shouldAttemptReset()
ShouldAttemptReset ==
  IF breaker.lastFailTime # NULL
  THEN now - breaker.lastFailTime > ResetTimeout
  ELSE FALSE

\* execute(fn) up to `await fn()`: an open breaker rejects unless the reset
\* timeout has passed, in which case it becomes half-open; fn is invoked.
BreakerExecute(c) ==
  /\ breaker.calls[c] \in {"idle", "rejected"}
  /\ IF breaker.state = "open" /\ ~ShouldAttemptReset
     THEN breaker' = [breaker EXCEPT !.calls[c] = "rejected"]
     ELSE breaker' = [breaker EXCEPT
            !.state = IF @ = "open" THEN "half-open" ELSE @,
            !.calls[c] = "inflight"]
  /\ UNCHANGED now
  /\ UNCHANGED breakerFrame

\* Variant of onFailure that opens the breaker only from the closed state.
BreakerOnFailureFromClosed(b) ==
  [b EXCEPT !.failures = @ + 1,
            !.lastFailTime = now,
            !.state = IF b.failures + 1 >= Threshold /\ @ = "closed"
                      THEN "open" ELSE @]

\* onFailure()
BreakerOnFailure(b) ==
  [b EXCEPT !.failures = @ + 1,
            !.lastFailTime = now,
            !.state = IF b.failures + 1 >= Threshold THEN "open" ELSE @]

\* onSuccess()
BreakerOnSuccess(b) == [b EXCEPT !.failures = 0, !.state = "closed"]

\* execute(fn) after `await fn()`: onSuccess() or onFailure().
FnSettles(c, ok) ==
  /\ breaker.calls[c] = "inflight"
  /\ breaker' = [(IF ok THEN BreakerOnSuccess(breaker)
                        ELSE BreakerOnFailure(breaker))
                EXCEPT !.calls[c] = "idle"]
  /\ UNCHANGED now
  /\ UNCHANGED breakerFrame

\* Date.now() advances.
BreakerTick ==
  /\ now + BreakerStep <= BreakerMaxNow
  /\ now' = now + BreakerStep
  /\ UNCHANGED breaker
  /\ UNCHANGED breakerFrame

NextBreaker ==
  \/ \E c \in BreakerCallers : BreakerExecute(c)
  \/ \E c \in BreakerCallers, ok \in BOOLEAN : FnSettles(c, ok)
  \/ BreakerTick

SpecBreaker == Init /\ [][NextBreaker]_vars

\* ================================================================ claims

InFlight == {p \in Procs : pc[p] = "inflight" /\ call[p].kind = "store"}

\* C1: under any interleaving of refreshAccessToken calls on the store, at
\* most one authApi.refresh call is outstanding, and a call made while a
\* refresh is in progress is queued behind it instead of starting its own.
C1_AtMostOneNetworkRefresh ==
  /\ Cardinality(InFlight) <= 1
  /\ Cardinality({p \in Procs : pc[p] \in {"inflight", "fnDone"}}) <= 1
  /\ \A q \in Procs : pc[q] = "queued" =>
        \E p \in Procs : pc[p] \in {"inflight", "fnDone"}

C1_Witness ==
  /\ Cardinality(InFlight) = 1
  /\ Len(refreshQueue) = NumCallers - 1

\* C2: a caller of the coordinator that arrived while a refresh was in flight
\* has, at every moment, the outcome of the caller that started that refresh:
\* pending together, resolved with the same token, or rejected with the same
\* error.
C2_SameOutcomeAsLeader ==
  \A q \in Procs : call[q].leader # NULL =>
     /\ call[q].state = call[call[q].leader].state
     /\ call[q].value = call[call[q].leader].value

C2_Witness ==
  \E p \in Callers : \E q1, q2 \in Callers :
     /\ q1 # q2
     /\ call[q1].leader = p /\ call[q2].leader = p
     /\ call[q1].state = "rejected" /\ call[q2].state = "rejected"
     /\ call[p].state = "rejected" /\ call[p].value \in Errs

\* C3: no waiter is left unresolved: a promise returned by refresh is pending
\* only while a refresh function is running or its continuation is due.
C3_NoWaiterLeftUnresolved ==
  \A q \in Procs : call[q].state = "pending" =>
     \E p \in Procs : pc[p] \in {"inflight", "fnDone"}

RefreshFailedStep ==
  \A p \in Procs :
     (pc[p] = "inflight" /\ call[p].kind = "store" /\ pc'[p] = "fnDone"
        /\ call'[p].out = NULL)
     => (accessToken' = NULL /\ refreshToken' = NULL /\ user' = NULL
           /\ isAuthenticated' = FALSE)

NullReleasedStep ==
  \A p \in Procs :
     (pc[p] = "fnDone" /\ call[p].kind = "store" /\ call[p].out = NULL
        /\ pc'[p] = "settled")
     => \A q \in Range(refreshQueue) \cup {p} :
           /\ pc'[q] = "settled"
           /\ call'[q].state = "resolved"
           /\ call'[q].value = NULL

NeverRejects ==
  \A p \in Procs : call[p].kind = "store" => call[p].state # "rejected"

\* C4: when authApi.refresh fails (failed Result or exception) both tokens are
\* removed from storage and the auth state is cleared in that step, the
\* initiating caller and every waiter are then resolved with null, and
\* refreshAccessToken never rejects.
C4_RefreshFailureTearsDown ==
  [][RefreshFailedStep /\ NullReleasedStep]_vars /\ []NeverRejects

C4_Witness ==
  \E p, q \in Callers :
     /\ call[q].leader = p
     /\ call[p].rtok # NULL
     /\ pc[p] = "settled" /\ pc[q] = "settled"
     /\ call[p].value = NULL /\ call[q].value = NULL
     /\ accessToken = NULL /\ refreshToken = NULL
     /\ user = NULL /\ ~isAuthenticated

\* C5: a GET whose first response is a 401, in a session that held a refresh
\* token, whose refresh was not refused by the backend and whose replay is
\* answered 200, ends with exactly one retried request that carries a new
\* access token and with a success Result.
C5_RefreshThenRetrySucceeds ==
  LET r == req[Client] IN
  (/\ pc[Client] = "done"
   /\ r.method = "get"
   /\ r.resp[1] = 401
   /\ r.rtokAt401 # NULL
   /\ \A i \in 2..Len(r.resp) : r.resp[i] = 200
   /\ ~(call[Client].rtok # NULL /\ call[Client].value = NULL))
  => (/\ r.result = "success"
      /\ Len(r.sent) = 2
      /\ r.sent[2] # NULL
      /\ r.sent[2] # r.sent[1])

\* C6: when the refresh triggered by a 401 yields no token, the request ends
\* in that step with the tokens cleared, a failed Result whose code is
\* UNAUTHORIZED, and no attempt beyond the first.
C6_RefreshFailureSurfacesUnauthorized ==
  [][(/\ pc[Client] = "settled"
      /\ req[Client].method # "none"
      /\ pc'[Client] = "done")
     => (/\ req'[Client].result = "UNAUTHORIZED"
         /\ accessToken' = NULL
         /\ refreshToken' = NULL
         /\ Len(req'[Client].sent) = 1)]_vars

\* C7: onUnauthorized is invoked for a request only once the request has
\* ended with its 401 still outstanding, and then exactly once.
C7_OnUnauthorizedOnceAfterRetries ==
  LET r == req[Client] IN
  r.unauthCalls > 0 =>
     (/\ pc[Client] = "done"
      /\ r.result = "UNAUTHORIZED"
      /\ r.unauthCalls = 1)

\* C8: a finished request that received a 401 on an attempt that still had a
\* retry left has invoked the injected refresh function exactly once,
\* whatever the position of that 401.
C8_RefreshOncePerRetryCycle ==
  LET r == req[Client] IN
  (/\ pc[Client] = "done"
   /\ \E i \in 1..Len(r.resp) : i <= RetryLimit /\ r.resp[i] = 401)
  => r.refreshCalls = 1

\* C9 as stated: no request is sent more than 3 times, and every re-send
\* follows a response whose status is in the retry list.
C9_AtMostThreeSends ==
  LET r == req[Client] IN
  /\ Len(r.sent) <= 3
  /\ \A i \in 1..(Len(r.sent) - 1) : r.resp[i] \in RetryStatusCodes

\* C9 (amended): no request is sent more than 4 times (the first attempt and
\* at most RetryLimit = 3 retries), and every re-send follows a failed fetch
\* or a response whose status is in the retry list.
C9_AtMostFourSends ==
  LET r == req[Client] IN
  /\ Len(r.sent) <= RetryLimit + 1
  /\ \A i \in 1..(Len(r.sent) - 1) :
        r.resp[i] = NetErr \/ r.resp[i] \in RetryStatusCodes

C9_Witness ==
  LET r == req[Client] IN
  /\ pc[Client] = "done"
  /\ Len(r.sent) = RetryLimit + 1
  /\ r.resp = <<NetErr, 503, 401, 503>>

\* C10: a POST or PATCH is sent at most once per call.
C10_WritesSentOnce ==
  LET r == req[Client] IN
  r.method \in {"post", "patch"} => Len(r.sent) <= 1

\* C11: a request whose first two attempts are answered 503 is sent a third
\* time, and when that third attempt is answered 200 the request ends with a
\* success Result after exactly three sends, without onUnauthorized and
\* without a token refresh having been run for it.
C11_TwoFailuresThenSuccess ==
  LET r == req[Client] IN
  /\ (r.resp = <<503, 503>>) =>
        /\ pc[Client] \in {"backoff", "beforeRequest", "fetch"}
        /\ r.result = "none"
  /\ (r.resp = <<503, 503, 200>>) =>
        /\ pc[Client] = "done"
        /\ r.result = "success"
        /\ Len(r.sent) = 3
        /\ r.unauthCalls = 0
        /\ r.refreshCalls = 0
        /\ location # LoginUrl

C11_Witness ==
  LET r == req[Client] IN
  /\ r.resp = <<503, 503, 200>>
  /\ r.method = "post"
  /\ r.result = "success"
  /\ accessToken # NULL

\* Call q reaches the wrapped client in this step.
ClientCalled(q) ==
  /\ api[q].state = "idle"
  /\ api'[q].state # "idle"
  /\ api'[q].promise # NULL

SameKey(k) == {i \in DOMAIN promises : promises[i].key = k}

\* C12: a GET that reaches the client while a request for the same key is
\* pending, or settled less than the TTL ago, starts no request: it takes the
\* promise of that request, for which exactly one network request was sent.
\* A GET made when every earlier request for its key settled more than the
\* TTL ago starts a second request.  Calls that took the same promise get the
\* same Result.
C12_OneNetworkCallPerTtlWindow ==
  /\ [][\A q \in ApiCallers :
          (ClientCalled(q) /\ api'[q].method = "get") =>
            LET same == SameKey(api'[q].key) IN
            /\ (\E i \in same : \/ promises[i].state = "pending"
                                \/ promises[i].settledFor < Ttl)
                 => /\ promises' = promises
                    /\ api'[q].promise \in same
                    /\ promises[api'[q].promise].sent
            /\ (/\ same # {}
                /\ \A i \in same : /\ promises[i].state # "pending"
                                   /\ promises[i].settledFor > Ttl)
                 => /\ Len(promises') = Len(promises) + 1
                    /\ api'[q].promise = Len(promises')]_vars
  /\ [](\A p, q \in ApiCallers :
          (/\ api[p].state = "done" /\ api[q].state = "done"
           /\ api[p].promise # NULL /\ api[p].promise = api[q].promise)
          => api[p].result = api[q].result)

\* C13: while a settled request is the cache entry of its key, the removal
\* of that key is pending and due exactly TTL after the settlement, whatever
\* the request settled with; once more than TTL has passed since the
\* settlement the request is no longer the entry of its key; and a pending
\* removal always belongs to the current entry of its key.
C13_EntryRemovedTtlAfterSettle ==
  /\ \A k \in Keys :
        LET i == pendingRequests[k] IN
        (i # NULL /\ promises[i].state # "pending") =>
           /\ promises[i].settledFor <= Ttl
           /\ [key |-> k, delay |-> Ttl - promises[i].settledFor, owner |-> i]
                 \in timers
  /\ \A t \in timers : pendingRequests[t.key] = t.owner

C13_Witness ==
  \E i, j \in DOMAIN promises :
     /\ i < j
     /\ promises[i].key = promises[j].key
     /\ promises[i].key # <<>>
     /\ promises[i].value.name = "AbortError"
     /\ promises[i].settledFor > Ttl
     /\ pendingRequests[promises[j].key] = j
     /\ promises[j].state = "rejected"
     /\ promises[j].settledFor = TickMs

\* C14: every call of post, put, patch or delete that reaches the client
\* starts a request of its own and leaves the de-duplication cache alone,
\* whatever is in flight or has completed.
C14_WritesNeverDeduplicated ==
  [][\A q \in ApiCallers :
       (ClientCalled(q) /\ api'[q].method \in {"post", "put", "patch", "delete"})
       => /\ Len(promises') = Len(promises) + 1
          /\ api'[q].promise = Len(promises')
          /\ api'[q].created
          /\ pendingRequests' = pendingRequests]_vars

C14_Witness ==
  \E p, q \in ApiCallers :
     /\ p < q
     /\ api[p].method = "patch" /\ api[q].method = "patch"
     /\ api[p].state = "awaiting" /\ api[q].state = "awaiting"
     /\ api[p].promise # api[q].promise
     /\ promises[api[q].promise].sent

\* C15: a call made with a signal that is already aborted ends with the
\* NETWORK_ERROR failure that carries the cancelled flag, and no network
\* request is sent for it.
C15_AbortedCallShortCircuits ==
  \A p \in ApiCallers :
     api[p].aborted =>
        /\ api[p].state = "done" => api[p].result = Failure(CancelledError)
        /\ api[p].created => ~promises[api[p].promise].sent

\* C16: handleApiResponse never rejects: whatever the wrapped call resolves
\* with or rejects with, the caller gets a Result.
C16_HandleApiResponseNeverRejects ==
  norm.fn = "handleApiResponse" => "success" \in DOMAIN norm.out

\* C17: every Result produced by handleApiResponse, tryCatch or a function
\* made by createMockWrapper has exactly one branch: success = true with a
\* data key and no error key, or success = false with an error key and no
\* data key.
C17_ResultHasExactlyOneBranch ==
  (/\ norm.fn \in {"handleApiResponse", "tryCatch", "mockWrapper"}
   /\ "success" \in DOMAIN norm.out)
  => \/ norm.out.success /\ DOMAIN norm.out = {"success", "data"}
     \/ ~norm.out.success /\ DOMAIN norm.out = {"success", "error"}

C17_Witness ==
  /\ norm.fn = "handleApiResponse"
  /\ norm.settle = "reject"
  /\ norm.input = JsError("HTTPError", {}, 404)
  /\ norm.out = Failure(AppErrorFromHttpStatus(404))

\* C18: a failed Result returned through handleApiResponse or through a
\* function made by createMockWrapper carries an AppError whose code is one
\* of ErrorCodes, never the raw thrown value.
C18_FailedResultCarriesAppError ==
  (/\ norm.fn \in {"handleApiResponse", "mockWrapper"}
   /\ "success" \in DOMAIN norm.out
   /\ ~norm.out.success)
  => /\ norm.out.error.type = "AppError"
     /\ norm.out.error.code \in ErrorCodes

\* The HTTP status an input carries: the number itself, an object's status
\* or statusCode property, or the status of its response (NULL: none).
Carried(v) ==
  IF v.type = "number" THEN v.status
  ELSE IF v.type \in {"object", "Error"}
       THEN Or(Or(v.status, v.statusCode), v.respStatus)
  ELSE NULL

\* C19: when the input of normalizeError or fromHttpStatus carries an HTTP
\* status, as a number, as a status/statusCode property or as
\* response.status, the error has the code and the retryable flag of the
\* statusMap for a status of the map (retryable only for 429, 500, 502, 503
\* and 504), and UNKNOWN_ERROR, not retryable, for any other status.
C19_StatusMapApplied ==
  (/\ norm.fn \in {"normalizeError", "fromHttpStatus"}
   /\ Carried(norm.input) # NULL)
  => LET st == Carried(norm.input) IN
     /\ Produced(norm.out) = <<FromHttpStatus(st), StatusRetryable(st)>>
     /\ Produced(norm.out)[2] = (st \in {429, 500, 502, 503, 504})
     /\ st \notin MappedStatuses => Produced(norm.out) = <<"UNKNOWN_ERROR", FALSE>>

\* C20: an error produced by fromHttpStatus, normalizeError or
\* handleApiResponse that has the code of networkError(), or the code of
\* fromHttpStatus(st) for some status st, has the same retryable flag as
\* that error.
C20_OneRetryablePerCode ==
  (/\ norm.fn \in {"fromHttpStatus", "normalizeError", "handleApiResponse"}
   /\ Produced(norm.out) # <<>>)
  => LET e == Produced(norm.out) IN
     /\ e[1] = NetworkError.code => e[2] = NetworkError.retryable
     /\ \A st \in StatusSamples :
           e[1] = FromHttpStatus(st) => e[2] = StatusRetryable(st)

\* C21: logout always ends with both tokens removed from storage and the
\* auth state cleared (user null, isAuthenticated false, isLoading false),
\* whether authApi.logout succeeded, returned a failed Result or threw.
C21_LogoutAlwaysClears ==
  [][\A p \in SessionCallers :
       (pc[p] = "logout" /\ pc'[p] = "idle") =>
         /\ accessToken' = NULL
         /\ refreshToken' = NULL
         /\ user' = NULL
         /\ ~isAuthenticated'
         /\ ~isLoading']_vars

\* A logout whose request was answered 401 has returned, with a session that
\* had been established before.
C21_Witness ==
  \E p \in SessionCallers :
    /\ authCall[p].op = "logout"
    /\ authCall[p].unauthorized
    /\ authCall[p].returned = "void"
    /\ issued > 0
    /\ accessToken = NULL

C23_FailedLoginChangesOnlyLoading ==
  [][\A p \in SessionCallers :
       (/\ pc[p] = "login"
        /\ authCall'[p] # authCall[p]
        /\ authCall'[p].returned # "true") =>
         /\ UNCHANGED <<user, isAuthenticated, accessToken, refreshToken>>
         /\ pc'[p] = "idle" => authCall'[p].returned = "false"]_vars

\* C29: in every reachable state of the store, under any interleaving of
\* login, register, logout, refreshUser, refreshAccessToken and the client's
\* onUnauthorized, isAuthenticated is true only if an access token is in
\* storage, and isAuthenticated is true exactly when user is non-null.
C29_AuthenticatedHasTokenAndUser ==
  /\ isAuthenticated => accessToken # NULL
  /\ isAuthenticated <=> user # NULL

\* C30: once logout has completed, both token keys stay absent from storage
\* until the next successful login or register, also when a token refresh or
\* another request was in flight at the moment logout was called.  A logout
\* has completed and no caller's latest action is a login or register that
\* returned true.
C30_TokensAbsentAfterLogout ==
  (/\ \E p \in SessionCallers :
        authCall[p].op = "logout" /\ authCall[p].returned = "void"
   /\ \A q \in SessionCallers :
        ~(authCall[q].op \in {"login", "register"}
          /\ authCall[q].returned = "true"))
  => (accessToken = NULL /\ refreshToken = NULL)

\* C24: while session monitoring runs, the periodic check calls logout and
\* navigates to the login page exactly when the user is authenticated and
\* more than 30 minutes have passed since the last recorded activity; so an
\* authenticated session is never found more than one check interval past
\* its 30-minute timeout with its tokens still stored.
C24_ExpiredSessionLoggedOut ==
  /\ [][(monitor.due = 0 /\ monitor'.due = CheckInterval) =>
         ((monitor'.pending = monitor.pending + 1 /\ location' = LoginUrl)
            <=> (isAuthenticated /\ lastActivity # NULL
                 /\ now - lastActivity > SessionTimeout))]_vars
  /\ []((isAuthenticated /\ lastActivity # NULL) =>
          now - lastActivity <= SessionTimeout + CheckInterval)

C26_RateLimiter ==
  /\ [](\A e \in Endpoints : \A t \in 0..LimiterMaxNow :
          Cardinality({i \in DOMAIN limiter.accepted[e] :
                         /\ t <= limiter.accepted[e][i]
                         /\ limiter.accepted[e][i] < t + LimiterWindowMs})
            <= LimiterMaxRequests)
  /\ [][\A e \in Endpoints :
          (limiter' # limiter /\ limiter'.last.endpoint = e) =>
            /\ (limiter'.last.op = "checkLimit"
                 /\ Len(ValidRequests(limiter.requests[e], now))
                      >= LimiterMaxRequests) =>
                  /\ limiter'.last.threw = <<RateLimitExceeded>>
                  /\ limiter'.requests = limiter.requests
            /\ \A f \in Endpoints \ {e} :
                  Len(limiter'.requests[f]) = Len(limiter.requests[f])]_vars

\* C27: calling execute again, or cancel, while an earlier request is still
\* pending cancels the earlier request: once its controller is aborted, its
\* result or error never overwrites the hook state and never fires onSuccess
\* or onError; so, after all calls settle, the state is the one written by
\* the latest execute, or the reset state after cancel.
C27_SupersededCallIsSilent ==
  /\ [][\A i \in Executes :
          hook.calls[i].aborted =>
            /\ hook'.calls[i].fired = hook.calls[i].fired
            /\ hook'.state # hook.state => hook'.state.by # i]_vars
  /\ []((\A i \in Executes : hook.calls[i].status \in {"new", "done"}) =>
          \/ hook.state = ResetState
          \/ /\ hook.state.by = hook.abortControllerRef
             /\ ~hook.calls[hook.state.by].aborted)

\* C28: under any interleaving of concurrent execute calls, when the last 5
\* or more settled calls have all failed, every execute call made less than
\* 60 s after the most recent failure is rejected without invoking the
\* wrapped request; and the state is 'closed' only while the failure count is
\* below 5.
C28_OpenBreakerRejects ==
  /\ [][\A c \in BreakerCallers :
          (/\ breaker.calls[c] # "inflight"
           /\ breaker.failures >= Threshold
           /\ now - breaker.lastFailTime < ResetTimeout) =>
            breaker'.calls[c] # "inflight"]_vars
  /\ [](breaker.state = "closed" => breaker.failures < Threshold)

\* The breaker is open after a failure of a half-open trial; one caller was
\* rejected while the request of another is still in flight.
C28_Witness ==
  /\ breaker.state = "open"
  /\ breaker.failures > Threshold
  /\ now - breaker.lastFailTime < ResetTimeout
  /\ \E c, d \in BreakerCallers :
       breaker.calls[c] = "rejected" /\ breaker.calls[d] = "inflight"

====
